---- MODULE Spec2Model ----
(***************************************************************************)
(* The offline-first synchronisation engine of the image gallery           *)
(* (App component, src/unnamed/part_002).                                  *)
(*                                                                         *)
(* The React state of the component, the AsyncStorage entries, the local   *)
(* document directory, the remote bucket and the network are the state.    *)
(* Every async function of the component is a task: a record holding the   *)
(* values its closure captured at the render that started it and the       *)
(* await it is suspended at.  One action is one synchronous segment of a   *)
(* handler (from one await to the next) followed by the render it causes   *)
(* and the effects that render fires.                                      *)
(***************************************************************************)
EXTENDS Integers, Sequences, FiniteSets, Bags, TLC

VARIABLES
    savedImages,        \* useState<ImageInfo[]>             (line 100)
    saveQueue,          \* useState<ImageInfo[]>             (line 101)
    uploadQueue,        \* useState<ImageInfo[]>             (line 102)
    isConnected,        \* useState(true)                    (line 105)
    processingImages,   \* useState<Set<string>>             (line 108)
    offlineDeleteQueue, \* useState<ImageInfo[]>             (line 111)
    onlineDeleteQueue,  \* useState<{uri, cloudPath}[]>      (line 112)
    listener,           \* closure of the subscribed NetInfo listener
    asyncStorage,       \* AsyncStorage: STORAGE_KEYS -> stored list
    files,              \* files present in FileSystem.documentDirectory
    remote,             \* object names present in STORAGE_BUCKET
    net,                \* the network is usable (link and reachability)
    clock,              \* the last value Date.now() returned
    picked,             \* number of assets the image picker has returned
    tasks,              \* the suspended async calls (a bag of tasks)
    hist                \* observations of the run (not program state)

vars == <<savedImages, saveQueue, uploadQueue, isConnected, processingImages,
          offlineDeleteQueue, onlineDeleteQueue, listener, asyncStorage,
          files, remote, net, clock, picked, tasks, hist>>

(***************************************************************************)
(* Bounds of the model.                                                    *)
(***************************************************************************)
MaxPicks == 1
MaxTasks == 3
MaxDeleteQueue == 2
MaxCrashes == 1
MaxNetInfoEvents == 3
MaxSavePicks == 2

(***************************************************************************)
(* Values.                                                                 *)
(***************************************************************************)
selectionLimit == 10

Extension == "jpg"

\* A file name "<stem>.<ext>"; the stem <<t, i>> is the text "<t>-<i>".
FileNameOf(stem) == [stem |-> stem, ext |-> Extension]

\* An absent or empty cloudPath.
NoPath == [stem |-> <<>>, ext |-> ""]

DocumentUri(stem) == [dir |-> "documentDirectory", file |-> FileNameOf(stem)]

AssetUri(n) == [dir |-> "ImagePicker", file |-> FileNameOf(<<n>>)]

NoError == "null"
OfflineMessage == "No internet connection"
NetworkMessage == "Network request failed"
ServerMessage == "Internal Server Error"

ImageInfo(uri, status, error, date, path) ==
    [uri |-> uri, uploadStatus |-> status, uploadError |-> error,
     uploadDate |-> date, cloudPath |-> path]

STORAGE_KEYS == {"savedImages", "offlineDeleteQueue", "onlineDeleteQueue"}

(***************************************************************************)
(* Sequence helpers.                                                       *)
(***************************************************************************)
Filter(s, Test(_)) == SelectSeq(s, Test)

Range(s) == {s[i] : i \in 1..Len(s)}

Slice1(s) == IF s = <<>> THEN <<>> ELSE Tail(s)

(***************************************************************************)
(* generateImageHash: the base name of the last path segment when it has   *)
(* the form <digits>-<digits>, otherwise a fresh "<Date.now()>-0".         *)
(***************************************************************************)
MatchesTimestampIndex(stem) == Len(stem) = 2

generateImageHash(file, now) ==
    IF MatchesTimestampIndex(file.stem) THEN file.stem ELSE <<now, 0>>

HashOf(image) == generateImageHash(image.uri.file, clock)

(***************************************************************************)
(* The React state of one render, as the closures of that render see it.   *)
(***************************************************************************)
Current ==
    [savedImages |-> savedImages, saveQueue |-> saveQueue,
     uploadQueue |-> uploadQueue, isConnected |-> isConnected,
     processingImages |-> processingImages,
     offlineDeleteQueue |-> offlineDeleteQueue,
     onlineDeleteQueue |-> onlineDeleteQueue]

\* What processUploadQueue reads from the closure the listener was created in.
ListenerClosure(s) ==
    [isConnected |-> s.isConnected, uploadQueue |-> s.uploadQueue,
     processingImages |-> s.processingImages]

(***************************************************************************)
(* processUploadQueue up to its first await: the guard, the copy and the   *)
(* clearing of the queue, and the loop skipping the entries whose hash is  *)
(* in the processingImages set of the closure.                             *)
(***************************************************************************)
RECURSIVE SkipProcessing(_, _)
SkipProcessing(queue, processing) ==
    IF queue = <<>> THEN <<>>
    ELSE IF HashOf(Head(queue)) \in processing
         THEN SkipProcessing(Tail(queue), processing)
         ELSE queue

UploadTask(queue, processing, connected) ==
    [fn |-> "processUploadQueue", pc |-> "getInfoAsync", queue |-> queue,
     processingImages |-> processing, isConnected |-> connected,
     fileRead |-> FALSE]

\* The calls of processUploadQueue that get past the guard of line 489.
UploadStarts(closure) == closure.isConnected /\ closure.uploadQueue # <<>>

\* The task processUploadQueue leaves suspended, if any.
UploadSpawn(closure) ==
    LET rest == SkipProcessing(closure.uploadQueue, closure.processingImages)
    IN  IF UploadStarts(closure) /\ rest # <<>>
        THEN SetToBag({UploadTask(rest, closure.processingImages,
                                  closure.isConnected)})
        ELSE EmptyBag

(***************************************************************************)
(* The effects of the component: each compares its dependencies with       *)
(* those of the previous render and calls its handler with the closure of  *)
(* the new render.                                                         *)
(***************************************************************************)
SaveEffectFires(old, new) ==
    /\ Len(new.saveQueue) # Len(old.saveQueue)
    /\ Len(new.saveQueue) > 0

UploadEffectFires_onReconnect(old, new) ==
    /\ new.isConnected # old.isConnected
    /\ new.isConnected /\ Len(new.uploadQueue) > 0

UploadEffectFires(old, new) ==
    /\ \/ Len(new.uploadQueue) # Len(old.uploadQueue)
       \/ new.isConnected # old.isConnected
    /\ new.isConnected /\ Len(new.uploadQueue) > 0

OfflineDeleteEffectFires(old, new) ==
    /\ Len(new.offlineDeleteQueue) # Len(old.offlineDeleteQueue)
    /\ Len(new.offlineDeleteQueue) > 0

OnlineDeleteEffectFires_anyNetwork(old, new) ==
    /\ Len(new.onlineDeleteQueue) # Len(old.onlineDeleteQueue)
    /\ Len(new.onlineDeleteQueue) > 0

OnlineDeleteEffectFires(old, new) ==
    /\ \/ new.isConnected # old.isConnected
       \/ Len(new.onlineDeleteQueue) # Len(old.onlineDeleteQueue)
    /\ new.isConnected /\ Len(new.onlineDeleteQueue) > 0

SaveTask(new, now) ==
    [fn |-> "processSaveQueue", pc |-> "copyAsync",
     saveQueue |-> new.saveQueue, savedImages |-> new.savedImages,
     baseTimestamp |-> now]

OfflineDeleteTask(new) ==
    [fn |-> "processOfflineDeleteQueue", pc |-> "deleteAsync",
     offlineDeleteQueue |-> new.offlineDeleteQueue,
     onlineDeleteQueue |-> new.onlineDeleteQueue,
     savedImages |-> new.savedImages]

OnlineDeleteTask(new) ==
    [fn |-> "processOnlineDeleteQueue", pc |-> "remove",
     onlineDeleteQueue |-> new.onlineDeleteQueue]

\* What Date.now() can return (line 329): the millisecond of the last call
\* or a later one; the first call of a run reads 1.
DateNow == IF clock = 0 THEN {1} ELSE {clock, clock + 1}

Effects(old, new, now) ==
    (IF SaveEffectFires(old, new)
     THEN SetToBag({SaveTask(new, now)}) ELSE EmptyBag)
    (+) (IF UploadEffectFires(old, new) THEN UploadSpawn(new) ELSE EmptyBag)
    (+) (IF OfflineDeleteEffectFires(old, new)
         THEN SetToBag({OfflineDeleteTask(new)}) ELSE EmptyBag)
    (+) (IF OnlineDeleteEffectFires(old, new)
         THEN SetToBag({OnlineDeleteTask(new)}) ELSE EmptyBag)

(***************************************************************************)
(* The render that follows a synchronous segment: s is the React state     *)
(* the segment's setters leave, t the tasks still suspended.  The render   *)
(* runs the effects; the upload effect's processUploadQueue clears the     *)
(* upload queue, and the NetInfo effect re-subscribes the listener when    *)
(* isConnected changed.                                                    *)
(***************************************************************************)
Commit(s, t) ==
    \E now \in (IF SaveEffectFires(Current, s) THEN DateNow ELSE {clock}) :
    LET spawned == Effects(Current, s, now)
    IN  /\ BagCardinality(t) + BagCardinality(spawned) <= MaxTasks
        /\ tasks' = t (+) spawned
        /\ savedImages' = s.savedImages
        /\ saveQueue' = s.saveQueue
        /\ uploadQueue' = IF UploadEffectFires(Current, s) THEN <<>>
                          ELSE s.uploadQueue
        /\ isConnected' = s.isConnected
        /\ processingImages' = s.processingImages
        /\ offlineDeleteQueue' = s.offlineDeleteQueue
        /\ onlineDeleteQueue' = s.onlineDeleteQueue
        /\ listener' = IF s.isConnected # isConnected THEN ListenerClosure(s)
                       ELSE listener
        /\ clock' = IF SaveEffectFires(Current, s) THEN now ELSE clock

(***************************************************************************)
(* Initial state: the component is mounted on an empty AsyncStorage, the   *)
(* first loadSavedImages has returned, the network is usable.              *)
(***************************************************************************)
InitialReactState ==
    [savedImages |-> <<>>, saveQueue |-> <<>>, uploadQueue |-> <<>>,
     isConnected |-> TRUE, processingImages |-> {},
     offlineDeleteQueue |-> <<>>, onlineDeleteQueue |-> <<>>]

InitialHist ==
    [crashes |-> 0,          \* restarts of the process so far
     netEvents |-> 0,        \* states NetInfo has reported
     deleted |-> {},         \* uris deleteImage was called for
     inFlightDeleted |-> {}, \* uris deleted while their upload was in flight
     offlineDeleted |-> {},  \* cloud paths of uploaded images deleted offline
     sinceDown |-> {},       \* those deleted since the last reconnect whose
                             \* object was in the bucket then
     removedOnce |-> {},     \* cloud paths storage.remove has removed
     removedTwice |-> {},    \* cloud paths it has removed more than once
     objects |-> {},         \* <<uri, name>> of the objects storage.upload stored
     retried |-> {},         \* <<uri, status, cloudPath, pc>> the uploads
                             \* ended with that found the object stored
     unsaved |-> {},         \* picked asset uris not copied or dropped yet
     offlinePicks |-> {},    \* asset uris picked while disconnected
     missing |-> {},         \* rows deleteImage was called for and not found
     waitingDeleted |-> {},  \* uris deleted while waiting in uploadQueue
     interleaved |-> {},     \* uris deleted while processOfflineDeleteQueue
                             \* was suspended on another image
     failedDeletes |-> {}]   \* uris whose deleteAsync has thrown

Init ==
    /\ savedImages = InitialReactState.savedImages
    /\ saveQueue = InitialReactState.saveQueue
    /\ uploadQueue = InitialReactState.uploadQueue
    /\ isConnected = InitialReactState.isConnected
    /\ processingImages = InitialReactState.processingImages
    /\ offlineDeleteQueue = InitialReactState.offlineDeleteQueue
    /\ onlineDeleteQueue = InitialReactState.onlineDeleteQueue
    /\ listener = ListenerClosure(InitialReactState)
    /\ asyncStorage = [k \in STORAGE_KEYS |-> <<>>]
    /\ files = {}
    /\ remote = {}
    /\ net = TRUE
    /\ clock = 0
    /\ picked = 0
    /\ tasks = EmptyBag
    /\ hist = InitialHist

IsTask(t, fn, pc) ==
    /\ t \in BagToSet(tasks)
    /\ t.fn = fn
    /\ t.pc = pc

\* The tasks once task t has finished, or has moved on as task u.
Finished(t) == tasks (-) SetToBag({t})

Resumed(t, u) == Finished(t) (+) SetToBag({u})

(***************************************************************************)
(* pickImage: the picker returns k assets, which are appended to the save  *)
(* queue as pending images.                                                *)
(***************************************************************************)
NewImage(n) == ImageInfo(AssetUri(n), "pending", NoError, "null", NoPath)

pickImage(k) ==
    /\ k \in 1..selectionLimit
    /\ LET newImages == [j \in 1..k |-> NewImage(picked + j)]
       IN  Commit([Current EXCEPT !.saveQueue = saveQueue \o newImages], tasks)
    /\ picked' = picked + k
    /\ hist' = [hist EXCEPT
         !.unsaved = @ \cup {AssetUri(picked + j) : j \in 1..k},
         !.offlinePicks =
             IF isConnected THEN @
             ELSE @ \cup {AssetUri(picked + j) : j \in 1..k}]
    /\ UNCHANGED <<asyncStorage, files, remote, net>>

(***************************************************************************)
(* processSaveQueue.                                                       *)
(***************************************************************************)
\* The image of index j (from 1) of a drain, once copied.
CopiedImage(imageInfo, baseTimestamp, j) ==
    [imageInfo EXCEPT !.uri = DocumentUri(<<baseTimestamp, j - 1>>),
                      !.uploadStatus = "pending"]

\* processedImages without its nulls: the copies of the set ok succeeded.
ValidImages(queue, baseTimestamp, ok) ==
    LET processed == [j \in 1..Len(queue) |->
                        [image |-> CopiedImage(queue[j], baseTimestamp, j),
                         copied |-> j \in ok]]
        IsCopied(p) == p.copied
        kept == SelectSeq(processed, IsCopied)
    IN  [j \in 1..Len(kept) |-> kept[j].image]

\* The Promise.all of the copies resolves: lines 355-374.
processSaveQueue_copied(t, ok) ==
    /\ IsTask(t, "processSaveQueue", "copyAsync")
    /\ ok \subseteq 1..Len(t.saveQueue)
    /\ LET validImages == ValidImages(t.saveQueue, t.baseTimestamp, ok)
           newSavedImages == t.savedImages \o validImages
       IN  /\ files' = files \cup {validImages[j].uri : j \in 1..Len(validImages)}
           /\ IF validImages # <<>>
              THEN /\ asyncStorage' =
                        [asyncStorage EXCEPT !["savedImages"] = newSavedImages]
                   /\ Commit([Current EXCEPT
                                !.savedImages = newSavedImages,
                                !.uploadQueue = uploadQueue \o validImages],
                             Resumed(t, [t EXCEPT !.pc = "setItem"]))
              ELSE /\ asyncStorage' = asyncStorage
                   /\ Commit([Current EXCEPT !.saveQueue = <<>>], Finished(t))
    /\ hist' = [hist EXCEPT
         !.unsaved = @ \ {img.uri : img \in Range(t.saveQueue)}]
    /\ UNCHANGED <<remote, net, picked>>

\* The setItem of line 368 resolves: line 374.
processSaveQueue_saved(t) ==
    /\ IsTask(t, "processSaveQueue", "setItem")
    /\ Commit([Current EXCEPT !.saveQueue = <<>>], Finished(t))
    /\ UNCHANGED <<asyncStorage, files, remote, net, picked, hist>>

(***************************************************************************)
(* uploadImageToCloud.                                                     *)
(***************************************************************************)
\* errorMessage.toLowerCase().includes("network")
IncludesNetwork(message) == message \in {NetworkMessage}

UploadSuccess_noPath(imageInfo, path) ==
    [imageInfo EXCEPT !.uploadStatus = "success", !.uploadDate = "date",
                      !.uploadError = NoError]

\* The object returned on the already-uploaded, the 409 and the 200 paths.
UploadSuccess(imageInfo, path) ==
    [imageInfo EXCEPT !.uploadStatus = "success", !.uploadDate = "date",
                      !.cloudPath = path, !.uploadError = NoError]

UploadFailure_alwaysError(imageInfo, message, connected) ==
    [imageInfo EXCEPT !.uploadStatus = "error", !.uploadError = message]

\* The object returned by the catch block, lines 467-485.
UploadFailure(imageInfo, message, connected) ==
    LET isNetworkError == IncludesNetwork(message) \/ ~connected
    IN  [imageInfo EXCEPT
            !.uploadStatus = IF isNetworkError THEN "pending" ELSE "error",
            !.uploadError = message]

\* The object returned when the closure is not connected, lines 388-395.
UploadOffline(imageInfo) == [imageInfo EXCEPT !.uploadError = OfflineMessage]

\* existingFiles?.some(file => generateImageHash(file.name) === imageHash)
AlreadyUploaded(existingFiles, imageHash) ==
    \E file \in existingFiles : generateImageHash(file, clock) = imageHash

\* What storage.list() can return: the bucket's names, or no data.
ListOutcomes == IF net THEN {"listed", "failed"} ELSE {"failed"}

\* What storage.upload(fileName, ..., {upsert: false}) can return.
UploadOutcomes(fileName, fileRead) ==
    IF ~net \/ ~fileRead THEN {"network"}
    ELSE IF fileName \in remote THEN {"409", "server"}
    ELSE {"created", "server"}

\* Lines 444-485: the object returned for each answer of storage.upload; a
\* stored object answers with its path, which is the name it was given.
UploadResult_conflictThrows(imageInfo, fileName, outcome, connected) ==
    CASE outcome = "created" -> UploadSuccess(imageInfo, fileName)
      [] outcome = "409" -> UploadFailure(imageInfo, ServerMessage, connected)
      [] outcome = "network" ->
            UploadFailure(imageInfo, NetworkMessage, connected)
      [] outcome = "server" ->
            UploadFailure(imageInfo, ServerMessage, connected)

UploadResult_conflictKeepsError(imageInfo, fileName, outcome, connected) ==
    CASE outcome = "created" -> UploadSuccess(imageInfo, fileName)
      [] outcome = "409" ->
            [UploadSuccess(imageInfo, fileName) EXCEPT
                !.uploadError = ServerMessage]
      [] outcome = "network" ->
            UploadFailure(imageInfo, NetworkMessage, connected)
      [] outcome = "server" ->
            UploadFailure(imageInfo, ServerMessage, connected)

UploadResult(imageInfo, fileName, outcome, connected) ==
    CASE outcome = "created" -> UploadSuccess(imageInfo, fileName)
      [] outcome = "409" -> UploadSuccess(imageInfo, fileName)
      [] outcome = "network" ->
            UploadFailure(imageInfo, NetworkMessage, connected)
      [] outcome = "server" ->
            UploadFailure(imageInfo, ServerMessage, connected)

(***************************************************************************)
(* processUploadQueue.                                                     *)
(***************************************************************************)
NextEntry_stops(t) == Finished(t)

\* The loop goes on after the entry at the head of the task's queue.
NextEntry(t) ==
    LET rest == SkipProcessing(Tail(t.queue), t.processingImages)
    IN  IF rest = <<>> THEN Finished(t)
        ELSE Resumed(t, [t EXCEPT !.pc = "getInfoAsync", !.queue = rest,
                                  !.fileRead = FALSE])

\* prev.map(img => img.uri === image.uri ? result : img)
WithResult(images, image, result) ==
    [j \in 1..Len(images) |->
        IF images[j].uri = image.uri THEN result ELSE images[j]]

\* Lines 537-559: the result of uploadImageToCloud is written to the list.
UploadCompleted(t, result, alreadyThere, stored) ==
    LET image == Head(t.queue)
        newSavedImages == WithResult(savedImages, image, result)
    IN  /\ asyncStorage' =
             IF result.uploadStatus = "success"
             THEN [asyncStorage EXCEPT !["savedImages"] = newSavedImages]
             ELSE asyncStorage
        /\ hist' = [hist EXCEPT
             !.retried =
                 IF alreadyThere
                 THEN @ \cup {<<image.uri, result.uploadStatus,
                              result.cloudPath, t.pc>>}
                 ELSE @,
             !.objects = @ \cup {<<image.uri, name>> : name \in stored}]
        /\ Commit([Current EXCEPT
                     !.savedImages = newSavedImages,
                     !.processingImages = processingImages \ {HashOf(image)}],
                  NextEntry(t))

\* getInfoAsync resolves: lines 510-533, then uploadImageToCloud to line 406.
processUploadQueue_checked(t) ==
    /\ IsTask(t, "processUploadQueue", "getInfoAsync")
    /\ LET image == Head(t.queue)
           Other(img) == img.uri # image.uri
       IN  IF image.uri \notin files
           THEN /\ Commit([Current EXCEPT
                             !.uploadQueue = Filter(uploadQueue, Other),
                             !.savedImages = Filter(savedImages, Other)],
                          NextEntry(t))
                /\ UNCHANGED <<asyncStorage, hist>>
           ELSE IF ~t.isConnected
           THEN UploadCompleted(t, UploadOffline(image), FALSE, {})
           ELSE /\ Commit([Current EXCEPT
                             !.processingImages =
                                 processingImages \cup {HashOf(image)}],
                          Resumed(t, [t EXCEPT !.pc = "list"]))
                /\ UNCHANGED <<asyncStorage, hist>>
    /\ UNCHANGED <<files, remote, net, picked>>

\* storage.list() resolves: lines 408-442.
processUploadQueue_listed(t, outcome) ==
    /\ IsTask(t, "processUploadQueue", "list")
    /\ outcome \in ListOutcomes
    /\ LET image == Head(t.queue)
           imageHash == HashOf(image)
           fileName == FileNameOf(imageHash)
           existingFiles == IF outcome = "listed" THEN remote ELSE {}
       IN  IF AlreadyUploaded(existingFiles, imageHash)
           THEN UploadCompleted(t, UploadSuccess(image, fileName), TRUE, {})
           ELSE IF imageHash \in t.processingImages
           THEN UploadCompleted(t, image, FALSE, {})
           ELSE /\ Commit(Current,
                          Resumed(t,
                              [t EXCEPT !.pc = "upload",
                                        !.fileRead = image.uri \in files]))
                /\ UNCHANGED <<asyncStorage, hist>>
    /\ UNCHANGED <<files, remote, net, picked>>

\* storage.upload() resolves: lines 444-485.
processUploadQueue_uploaded(t, outcome) ==
    /\ IsTask(t, "processUploadQueue", "upload")
    /\ LET image == Head(t.queue)
           fileName == FileNameOf(HashOf(image))
       IN  /\ outcome \in UploadOutcomes(fileName, t.fileRead)
           /\ remote' = IF outcome = "created" THEN remote \cup {fileName}
                        ELSE remote
           /\ UploadCompleted(t,
                UploadResult(image, fileName, outcome, t.isConnected),
                outcome = "409",
                IF outcome = "created" THEN {fileName} ELSE {})
    /\ UNCHANGED <<files, net, picked>>

(***************************************************************************)
(* deleteImage.                                                            *)
(***************************************************************************)
DeleteTask(imageToDelete) ==
    [fn |-> "deleteImage", pc |-> "setItem", imageToDelete |-> imageToDelete]

\* The value of savedImages[index] where the list has no such row.
undefined == ImageInfo(DocumentUri(<<>>), "undefined", NoError, "", NoPath)

\* const imageToDelete = savedImages[index]  (line 604; rows count from 1).
ImageAt(index) ==
    IF index \in 1..Len(savedImages) THEN savedImages[index] ELSE undefined

Missing_never(imageToDelete) == FALSE

\* !imageToDelete  (line 605).
Missing(imageToDelete) == imageToDelete = undefined

InUploadQueue(uri) ==
    \E j \in 1..Len(uploadQueue) : uploadQueue[j].uri = uri

\* A drain of the upload queue (a processUploadQueue call) holds the image.
InUploadDrain(uri) ==
    \E t \in BagToSet(tasks) :
        /\ t.fn = "processUploadQueue"
        /\ \E j \in 1..Len(t.queue) : t.queue[j].uri = uri

\* An upload call (storage.upload) for the image is in flight.
UploadInFlight(uri) ==
    \E t \in BagToSet(tasks) :
        /\ IsTask(t, "processUploadQueue", "upload")
        /\ Head(t.queue).uri = uri

\* Lines 603-615; the code after the await acts on state only for a pending
\* image, so only then a task stays suspended.
deleteImage(index) ==
    IF Missing(ImageAt(index))
    THEN /\ hist' = [hist EXCEPT !.missing = @ \cup {index}]
         /\ UNCHANGED <<savedImages, saveQueue, uploadQueue, isConnected,
                        processingImages, offlineDeleteQueue,
                        onlineDeleteQueue, listener, asyncStorage, files,
                        remote, net, clock, picked, tasks>>
    ELSE
    /\ Len(offlineDeleteQueue) < MaxDeleteQueue
    /\ LET imageToDelete == ImageAt(index)
           newOfflineQueue == offlineDeleteQueue \o <<imageToDelete>>
           uploaded == imageToDelete.uploadStatus = "success"
                       /\ imageToDelete.cloudPath # NoPath
       IN  /\ asyncStorage' =
                [asyncStorage EXCEPT !["offlineDeleteQueue"] = newOfflineQueue]
           /\ Commit([Current EXCEPT !.offlineDeleteQueue = newOfflineQueue],
                     IF imageToDelete.uploadStatus = "pending"
                     THEN tasks (+) SetToBag({DeleteTask(imageToDelete)})
                     ELSE tasks)
           /\ hist' = [hist EXCEPT
                !.deleted = @ \cup {imageToDelete.uri},
                !.inFlightDeleted =
                    IF UploadInFlight(imageToDelete.uri)
                    THEN @ \cup {imageToDelete.uri} ELSE @,
                !.waitingDeleted =
                    IF InUploadQueue(imageToDelete.uri)
                       /\ ~InUploadDrain(imageToDelete.uri)
                    THEN @ \cup {imageToDelete.uri} ELSE @,
                !.interleaved =
                    IF \E t \in BagToSet(tasks) :
                          /\ t.fn = "processOfflineDeleteQueue"
                          /\ t.offlineDeleteQueue[1].uri # imageToDelete.uri
                    THEN @ \cup {imageToDelete.uri} ELSE @,
                !.offlineDeleted =
                    IF uploaded /\ ~isConnected
                    THEN @ \cup {imageToDelete.cloudPath} ELSE @,
                !.sinceDown =
                    IF uploaded /\ ~isConnected
                       /\ imageToDelete.cloudPath \in remote
                    THEN @ \cup {imageToDelete.cloudPath} ELSE @]
    /\ UNCHANGED <<files, remote, net, picked>>

\* The setItem of line 612 resolves: lines 617-623.
deleteImage_saved(t) ==
    /\ IsTask(t, "deleteImage", "setItem")
    /\ LET imageToDelete == t.imageToDelete
           Other(img) == img.uri # imageToDelete.uri
       IN  Commit([Current EXCEPT !.uploadQueue = Filter(uploadQueue, Other)],
                  Finished(t))
    /\ UNCHANGED <<asyncStorage, files, remote, net, picked, hist>>

(***************************************************************************)
(* processOfflineDeleteQueue.                                              *)
(***************************************************************************)
\* Lines 662-670, up to the await of the setItem.
RemoveFromSavedImages(t) ==
    LET imageToDelete == t.offlineDeleteQueue[1]
        Other(img) == img.uri # imageToDelete.uri
        updatedImages == Filter(t.savedImages, Other)
    IN  /\ asyncStorage' = [asyncStorage EXCEPT !["savedImages"] = updatedImages]
        /\ Commit([Current EXCEPT !.savedImages = updatedImages],
                  Resumed(t, [t EXCEPT !.pc = "setItemSavedImages"]))

\* deleteAsync resolves: lines 643-660, or 662-670 for an image not uploaded.
processOfflineDeleteQueue_deleted(t) ==
    /\ IsTask(t, "processOfflineDeleteQueue", "deleteAsync")
    /\ LET imageToDelete == t.offlineDeleteQueue[1]
           newOnlineQueue ==
               t.onlineDeleteQueue \o
                   <<[uri |-> imageToDelete.uri,
                      cloudPath |-> imageToDelete.cloudPath]>>
       IN  /\ files' = files \ {imageToDelete.uri}
           /\ IF imageToDelete.uploadStatus = "success"
                 /\ imageToDelete.cloudPath # NoPath
              THEN /\ asyncStorage' =
                        [asyncStorage EXCEPT
                            !["onlineDeleteQueue"] = newOnlineQueue]
                   /\ Commit([Current EXCEPT
                                !.onlineDeleteQueue = newOnlineQueue],
                             Resumed(t,
                                 [t EXCEPT !.pc = "setItemOnlineQueue"]))
              ELSE RemoveFromSavedImages(t)
    /\ UNCHANGED <<remote, net, picked, hist>>

\* The setItem of line 656 resolves: lines 662-670.
processOfflineDeleteQueue_queued(t) ==
    /\ IsTask(t, "processOfflineDeleteQueue", "setItemOnlineQueue")
    /\ RemoveFromSavedImages(t)
    /\ UNCHANGED <<files, remote, net, picked, hist>>

\* The setItem of line 667 resolves: lines 672-678.
processOfflineDeleteQueue_removed(t) ==
    /\ IsTask(t, "processOfflineDeleteQueue", "setItemSavedImages")
    /\ LET newOfflineQueue == Slice1(t.offlineDeleteQueue)
       IN  /\ asyncStorage' =
                [asyncStorage EXCEPT !["offlineDeleteQueue"] = newOfflineQueue]
           /\ Commit([Current EXCEPT !.offlineDeleteQueue = newOfflineQueue],
                     Finished(t))
    /\ UNCHANGED <<files, remote, net, picked, hist>>

NewOfflineQueueOnFailure_kept(queue) == queue

\* Line 695: the queue the catch block writes.
NewOfflineQueueOnFailure(queue) == Slice1(queue)

\* deleteAsync throws: the catch block, lines 686-701.
processOfflineDeleteQueue_failed(t) ==
    /\ IsTask(t, "processOfflineDeleteQueue", "deleteAsync")
    /\ LET imageToDelete == t.offlineDeleteQueue[1]
           newOfflineQueue == NewOfflineQueueOnFailure(t.offlineDeleteQueue)
       IN  /\ asyncStorage' =
                [asyncStorage EXCEPT !["offlineDeleteQueue"] = newOfflineQueue]
           /\ Commit([Current EXCEPT !.offlineDeleteQueue = newOfflineQueue],
                     Finished(t))
           /\ hist' = [hist EXCEPT
                !.failedDeletes = @ \cup {imageToDelete.uri}]
    /\ UNCHANGED <<files, remote, net, picked>>

(***************************************************************************)
(* processOnlineDeleteQueue.                                               *)
(***************************************************************************)
\* What storage.remove([cloudPath]) can return.
RemoveOutcomes == IF net THEN {"removed", "error"} ELSE {"error"}

\* storage.remove() resolves: lines 719-732, or the catch of line 740.
processOnlineDeleteQueue_removed(t, outcome) ==
    /\ IsTask(t, "processOnlineDeleteQueue", "remove")
    /\ outcome \in RemoveOutcomes
    /\ LET itemToDelete == t.onlineDeleteQueue[1]
           newQueue == Slice1(t.onlineDeleteQueue)
       IN  IF outcome = "removed"
           THEN /\ remote' = remote \ {itemToDelete.cloudPath}
                /\ asyncStorage' =
                     [asyncStorage EXCEPT !["onlineDeleteQueue"] = newQueue]
                /\ Commit([Current EXCEPT !.onlineDeleteQueue = newQueue],
                          Finished(t))
                /\ hist' = [hist EXCEPT
                     !.removedTwice =
                         IF itemToDelete.cloudPath \in hist.removedOnce
                         THEN @ \cup {itemToDelete.cloudPath} ELSE @,
                     !.removedOnce = @ \cup {itemToDelete.cloudPath}]
           ELSE /\ Commit(Current, Finished(t))
                /\ UNCHANGED <<remote, asyncStorage, hist>>
    /\ UNCHANGED <<files, net, picked>>

(***************************************************************************)
(* The NetInfo listener, lines 117-139, called with a state whose          *)
(* isConnected && isInternetReachable is v.  When v is the value the       *)
(* component already holds, setIsConnected changes nothing, the updater    *)
(* given to setSavedImages runs at once, and the processUploadQueue of the *)
(* listener's closure runs after it; when v is new, that closure holds the *)
(* old value of isConnected.                                               *)
(***************************************************************************)
IsFailedUpload_errorOnly(img) == img.uploadStatus = "error"

IsFailedUpload(img) == img.uploadStatus \in {"error", "pending"}

NetInfoListener_anyValue(v) ==
    LET failedUploads == Filter(savedImages, IsFailedUpload)
        requeued == [Current EXCEPT
                        !.isConnected = v,
                        !.uploadQueue = uploadQueue \o failedUploads]
    IN  IF v /\ UploadStarts(listener)
        THEN Commit([requeued EXCEPT !.uploadQueue = <<>>],
                    tasks (+) UploadSpawn(listener))
        ELSE Commit(requeued, tasks)

NetInfoListener(v) ==
    LET failedUploads == Filter(savedImages, IsFailedUpload)
        requeued == [Current EXCEPT
                        !.isConnected = v,
                        !.uploadQueue = IF v THEN uploadQueue \o failedUploads
                                        ELSE uploadQueue]
    IN  IF v /\ UploadStarts(listener)
        THEN Commit([requeued EXCEPT !.uploadQueue = <<>>],
                    tasks (+) UploadSpawn(listener))
        ELSE Commit(requeued, tasks)

\* The network becomes usable or unusable, and NetInfo reports it.
NetInfoChange ==
    /\ hist.netEvents < MaxNetInfoEvents
    /\ net' = ~net
    /\ NetInfoListener(~net)
    /\ hist' = [hist EXCEPT !.sinceDown = IF ~net THEN {} ELSE @,
                            !.netEvents = @ + 1]
    /\ UNCHANGED <<asyncStorage, files, remote, picked>>

\* NetInfo reports a state of the same usability as the last one (at
\* subscription, or when another detail of the state changed).
NetInfoRepeat ==
    /\ hist.netEvents < MaxNetInfoEvents
    /\ net' = net
    /\ NetInfoListener(net)
    /\ hist' = [hist EXCEPT !.sinceDown = IF net THEN {} ELSE @,
                            !.netEvents = @ + 1]
    /\ UNCHANGED <<asyncStorage, files, remote, picked>>

\* The state NetInfo reports to a listener it has just subscribed, when the
\* component does not hold that value yet (after a restart without network).
NetInfoFirst == isConnected # net /\ NetInfoRepeat

\* A change of the network while no async call is suspended.
NetInfoQuiet == tasks = EmptyBag /\ NetInfoChange

(***************************************************************************)
(* The process is killed and started again: the React state is that of the *)
(* first render, AsyncStorage, the files and the bucket stay, and          *)
(* loadSavedImages is called (line 157).  An upload that was in flight may *)
(* have reached the bucket.                                                *)
(***************************************************************************)
LoadTask == [fn |-> "loadSavedImages", pc |-> "getItem", parsed |-> <<>>]

\* The object names of the uploads in flight that can still be stored.
InFlightUploads ==
    {FileNameOf(HashOf(Head(t.queue))) :
        t \in {u \in BagToSet(tasks) :
                 /\ IsTask(u, "processUploadQueue", "upload")
                 /\ u.fileRead /\ net}}

Restart(arrived) ==
    /\ hist.crashes < MaxCrashes
    /\ arrived \subseteq InFlightUploads
    /\ remote' = remote \cup arrived
    /\ savedImages' = InitialReactState.savedImages
    /\ saveQueue' = InitialReactState.saveQueue
    /\ uploadQueue' = InitialReactState.uploadQueue
    /\ isConnected' = InitialReactState.isConnected
    /\ processingImages' = InitialReactState.processingImages
    /\ offlineDeleteQueue' = InitialReactState.offlineDeleteQueue
    /\ onlineDeleteQueue' = InitialReactState.onlineDeleteQueue
    /\ listener' = ListenerClosure(InitialReactState)
    /\ tasks' = SetToBag({LoadTask})
    /\ hist' = [hist EXCEPT !.crashes = @ + 1]
    /\ UNCHANGED <<asyncStorage, files, net, clock, picked>>

(***************************************************************************)
(* loadSavedImages.  A key never written reads as the empty list: the code *)
(* leaves the state of that key at its initial empty list.                 *)
(***************************************************************************)
\* The three getItem resolve: lines 183-207.
loadSavedImages_read(t) ==
    /\ IsTask(t, "loadSavedImages", "getItem")
    /\ Commit([Current EXCEPT
                 !.offlineDeleteQueue = asyncStorage["offlineDeleteQueue"],
                 !.onlineDeleteQueue = asyncStorage["onlineDeleteQueue"]],
              Resumed(t,
                  [t EXCEPT !.pc = "getInfoAsync",
                            !.parsed = asyncStorage["savedImages"]]))
    /\ UNCHANGED <<asyncStorage, files, remote, net, picked, hist>>

\* The getInfoAsync of every parsed image resolve: lines 250-267.
loadSavedImages_checked(t) ==
    /\ IsTask(t, "loadSavedImages", "getInfoAsync")
    /\ LET Exists(img) == img.uri \in files
           validImages == Filter(t.parsed, Exists)
           IsToUpload(img) == img.uploadStatus \in {"pending", "error"}
           imagesToUpload == Filter(validImages, IsToUpload)
       IN  Commit([Current EXCEPT
                     !.savedImages = validImages,
                     !.uploadQueue = uploadQueue \o imagesToUpload],
                  Finished(t))
    /\ UNCHANGED <<asyncStorage, files, remote, net, picked, hist>>

(***************************************************************************)
(* The specifications.                                                     *)
(***************************************************************************)
Tasks == BagToSet(tasks)

SaveCopied ==
    \E t \in Tasks :
        /\ IsTask(t, "processSaveQueue", "copyAsync")
        /\ \E ok \in SUBSET (1..Len(t.saveQueue)) : processSaveQueue_copied(t, ok)

SaveSaved == \E t \in Tasks : processSaveQueue_saved(t)

UploadChecked == \E t \in Tasks : processUploadQueue_checked(t)

UploadListed ==
    \E t \in Tasks : \E outcome \in {"listed", "failed"} :
        processUploadQueue_listed(t, outcome)

UploadResolved ==
    \E t \in Tasks : \E outcome \in {"created", "409", "network", "server"} :
        processUploadQueue_uploaded(t, outcome)

DeleteSaved == \E t \in Tasks : deleteImage_saved(t)

OfflineDeleted == \E t \in Tasks : processOfflineDeleteQueue_deleted(t)

OfflineQueued == \E t \in Tasks : processOfflineDeleteQueue_queued(t)

OfflineRemoved == \E t \in Tasks : processOfflineDeleteQueue_removed(t)

OnlineResolved ==
    \E t \in Tasks : \E outcome \in {"removed", "error"} :
        processOnlineDeleteQueue_removed(t, outcome)

Pick == \E k \in 1..MaxPicks : picked + k <= MaxPicks /\ pickImage(k)

Delete == \E index \in 1..Len(savedImages) : deleteImage(index)

TaskStep ==
    \/ SaveCopied
    \/ SaveSaved
    \/ UploadChecked
    \/ UploadListed
    \/ UploadResolved
    \/ DeleteSaved
    \/ OfflineDeleted
    \/ OfflineQueued
    \/ OfflineRemoved
    \/ OnlineResolved

Next ==
    \/ Pick
    \/ Delete
    \/ TaskStep
    \/ NetInfoChange
    \/ NetInfoRepeat

Spec == Init /\ [][Next]_vars

LoadRead == \E t \in Tasks : loadSavedImages_read(t)

LoadChecked == \E t \in Tasks : loadSavedImages_checked(t)

Crash == \E arrived \in SUBSET InFlightUploads : Restart(arrived)

\* The engine with process kills and restarts.
NextCrash ==
    \/ Pick
    \/ Delete
    \/ TaskStep
    \/ NetInfoQuiet
    \/ NetInfoFirst
    \/ Crash
    \/ LoadRead
    \/ LoadChecked

SpecCrash == Init /\ [][NextCrash]_vars

(***************************************************************************)
(* The engine over a store that answers every call it can answer: a copy   *)
(* succeeds, and list, upload and remove fail only when the network is     *)
(* unusable (or, for upload, when the file could not be read).  Every      *)
(* suspended call resolves in the end and the render that follows runs.    *)
(***************************************************************************)
SaveCopiedAll ==
    \E t \in Tasks :
        /\ IsTask(t, "processSaveQueue", "copyAsync")
        /\ processSaveQueue_copied(t, 1..Len(t.saveQueue))

UploadListedOk ==
    \E t \in Tasks :
        processUploadQueue_listed(t, IF net THEN "listed" ELSE "failed")

UploadResolvedOk ==
    \E t \in Tasks : \E outcome \in {"created", "409", "network"} :
        processUploadQueue_uploaded(t, outcome)

OnlineResolvedOk ==
    \E t \in Tasks :
        processOnlineDeleteQueue_removed(t, IF net THEN "removed" ELSE "error")

NextFair ==
    \/ Pick
    \/ Delete
    \/ SaveCopiedAll
    \/ SaveSaved
    \/ UploadChecked
    \/ UploadListedOk
    \/ UploadResolvedOk
    \/ DeleteSaved
    \/ OfflineDeleted
    \/ OfflineQueued
    \/ OfflineRemoved
    \/ OnlineResolvedOk
    \/ NetInfoChange

Fairness ==
    /\ WF_vars(SaveCopiedAll)
    /\ WF_vars(SaveSaved)
    /\ WF_vars(UploadChecked)
    /\ WF_vars(UploadListedOk)
    /\ WF_vars(UploadResolvedOk)
    /\ WF_vars(DeleteSaved)
    /\ WF_vars(OfflineDeleted)
    /\ WF_vars(OfflineQueued)
    /\ WF_vars(OfflineRemoved)
    /\ WF_vars(OnlineResolvedOk)

SpecFair == Init /\ [][NextFair]_vars /\ Fairness

(***************************************************************************)
(* The same engine over a bucket that may also refuse an upload with a     *)
(* server error, but only the first upload attempted for an image (the     *)
(* entry uploaded carries no uploadError yet): from the second attempt on  *)
(* storage.upload succeeds whenever the network is usable.                 *)
(***************************************************************************)
UploadRefusedOnce ==
    \E t \in Tasks :
        /\ IsTask(t, "processUploadQueue", "upload")
        /\ Head(t.queue).uploadError = NoError
        /\ processUploadQueue_uploaded(t, "server")

NextHeal ==
    \/ NextFair
    \/ UploadRefusedOnce

SpecHeal == Init /\ [][NextHeal]_vars /\ Fairness

(***************************************************************************)
(* The engine while images are picked and saved: connected, nothing is     *)
(* deleted, every copy succeeds and the bucket answers.                    *)
(***************************************************************************)
PickBatch ==
    \E k \in 1..MaxSavePicks : picked + k <= MaxSavePicks /\ pickImage(k)

NextSave ==
    \/ PickBatch
    \/ SaveCopiedAll
    \/ SaveSaved
    \/ UploadChecked
    \/ UploadListedOk
    \/ UploadResolvedOk

SpecSave == Init /\ [][NextSave]_vars

(***************************************************************************)
(* The engine when the row handed to deleteImage need not be a row of the  *)
(* list any more (a press on a row that has just gone).                    *)
(***************************************************************************)
DeleteRow == \E index \in 1..(MaxPicks + 1) : deleteImage(index)

NextRows ==
    \/ Pick
    \/ DeleteRow
    \/ TaskStep

SpecRows == Init /\ [][NextRows]_vars

(***************************************************************************)
(* The engine while it stays connected and MaxSavePicks images, selected   *)
(* together in the picker, are saved, uploaded and deleted: every copy     *)
(* succeeds and the bucket answers.                                        *)
(***************************************************************************)
PickAll == picked = 0 /\ pickImage(MaxSavePicks)

NextRemote ==
    \/ PickAll
    \/ Delete
    \/ SaveCopiedAll
    \/ SaveSaved
    \/ UploadChecked
    \/ UploadListedOk
    \/ UploadResolvedOk
    \/ DeleteSaved
    \/ OfflineDeleted
    \/ OfflineQueued
    \/ OfflineRemoved
    \/ OnlineResolvedOk

SpecRemote == Init /\ [][NextRemote]_vars

(***************************************************************************)
(* Observations used by the properties.                                    *)
(***************************************************************************)
\* No drain or handler is suspended and the four queues are empty.
Quiescent ==
    /\ tasks = EmptyBag
    /\ saveQueue = <<>>
    /\ uploadQueue = <<>>
    /\ offlineDeleteQueue = <<>>
    /\ onlineDeleteQueue = <<>>

Visible(uri) == \E j \in 1..Len(savedImages) : savedImages[j].uri = uri

UploadedPaths ==
    {savedImages[j].cloudPath :
        j \in {k \in 1..Len(savedImages) :
                 savedImages[k].uploadStatus = "success"}}

(***************************************************************************)
(* C1 (P2, no orphaned remote objects): whenever the four queues are empty *)
(* and no drain is in flight, the object names in the bucket are exactly   *)
(* the cloudPath values of the records of savedImages with status success. *)
(***************************************************************************)
C1_NoOrphanedRemoteObjects == Quiescent => remote = UploadedPaths

(***************************************************************************)
(* C2 (P5, visible list): a record deleted while its storage.upload call   *)
(* was in flight is never shown with status success afterwards.            *)
(***************************************************************************)
C2_DeletedDuringUploadNeverShownUploaded ==
    \A j \in 1..Len(savedImages) :
        savedImages[j].uri \in hist.inFlightDeleted
            => savedImages[j].uploadStatus # "success"

\* deleteImage's work for the image is over: the record is off the list and
\* no entry of the offline queue, in the state or in a drain, names it.
LocalDeleteDone(uri) ==
    /\ ~Visible(uri)
    /\ \A j \in 1..Len(offlineDeleteQueue) : offlineDeleteQueue[j].uri # uri
    /\ \A t \in Tasks :
           t.fn = "processOfflineDeleteQueue"
               => \A j \in 1..Len(t.offlineDeleteQueue) :
                      t.offlineDeleteQueue[j].uri # uri

OnlineQueued(path) ==
    \E j \in 1..Len(onlineDeleteQueue) : onlineDeleteQueue[j].cloudPath = path

(***************************************************************************)
(* C3 (P5, remote side): when the upload of a record deleted during that   *)
(* upload has stored its object, then, once the local delete is done, the  *)
(* object's name is on onlineDeleteQueue for as long as the object is in   *)
(* the bucket.                                                             *)
(***************************************************************************)
C3_DeletedDuringUploadRemoteKeyQueued ==
    \A o \in hist.objects :
        (o[1] \in hist.inFlightDeleted /\ o[2] \in remote
            /\ LocalDeleteDone(o[1]))
            => OnlineQueued(o[2])

\* The stems the copies can be named with.
Stems == {<<ts, i>> : ts \in 1..MaxPicks, i \in 0..(MaxPicks - 1)}

\* This step starts a processOnlineDeleteQueue, which calls storage.remove.
RemoteDeleteIssued ==
    \E t \in BagToSet(tasks') :
        /\ t.fn = "processOnlineDeleteQueue"
        /\ CopiesIn(t, tasks') > CopiesIn(t, tasks)

(***************************************************************************)
(* C4 (P4, offline phase): after an uploaded record is deleted while the   *)
(* component is disconnected, its file is deleted and the record leaves    *)
(* savedImages whether or not the connection comes back; until it comes    *)
(* back the object, if the bucket held it at the delete, stays there, and  *)
(* no step taken while disconnected calls storage.remove.                  *)
(***************************************************************************)
C4_OfflineDeleteOfflinePhase ==
    /\ \A stem \in Stems :
           (FileNameOf(stem) \in hist.sinceDown)
               ~> (DocumentUri(stem) \notin files
                      /\ ~Visible(DocumentUri(stem)))
    /\ [](\A path \in hist.sinceDown : path \in remote)
    /\ [][~isConnected' => ~RemoteDeleteIssued]_vars

C4_Witness ==
    /\ ~isConnected
    /\ \E stem \in Stems :
          /\ FileNameOf(stem) \in hist.sinceDown
          /\ FileNameOf(stem) \in remote
          /\ DocumentUri(stem) \notin files
          /\ ~Visible(DocumentUri(stem))
          /\ OnlineQueued(FileNameOf(stem))
          /\ tasks = EmptyBag

(***************************************************************************)
(* C5 (P4, reconnect): the object of an uploaded record deleted while      *)
(* disconnected is removed by storage.remove once, never a second time,    *)
(* also when deleteImage ran twice for the record.                         *)
(***************************************************************************)
C5_RemoteDeleteNeverTwice ==
    \A path \in hist.offlineDeleted : path \notin hist.removedTwice

(***************************************************************************)
(* C6 (P1, idempotent upload): the bucket never gets two objects for one   *)
(* record, and an upload that finds the record's object stored already,    *)
(* by the list() before the upload or by the 409 answer to it, ends with   *)
(* status success and the cloudPath the object was stored under.           *)
(***************************************************************************)
C6_IdempotentUpload ==
    /\ \A a \in hist.objects : \A b \in hist.objects :
           a[1] = b[1] => a[2] = b[2]
    /\ \A r \in hist.retried :
           /\ r[2] = "success"
           /\ <<r[1], r[3]>> \in hist.objects

C6_Witness ==
    /\ \E r \in hist.retried : r[4] = "list"
    /\ \E r \in hist.retried : r[4] = "upload"

\* This step ends loadSavedImages: the state is the restored one.
LoadCompletes ==
    /\ \E t \in BagToSet(tasks) : IsTask(t, "loadSavedImages", "getInfoAsync")
    /\ \A t \in BagToSet(tasks') : t.fn # "loadSavedImages"

Persisted(uri) ==
    \E j \in 1..Len(asyncStorage["savedImages"]) :
        asyncStorage["savedImages"][j].uri = uri

RestoredValid ==
    /\ \A j \in 1..Len(savedImages) :
           savedImages[j].uploadStatus \in {"pending", "success", "error"}
    /\ \A j \in 1..Len(offlineDeleteQueue) :
           Persisted(offlineDeleteQueue[j].uri)

(***************************************************************************)
(* C7 (P3, crash safety): in the state loadSavedImages restores after a    *)
(* kill at any point, every record has a defined status and every entry    *)
(* of offlineDeleteQueue names a record of the persisted savedImages.      *)
(***************************************************************************)
C7_RestoredQueuesReferToRecords == [][LoadCompletes => RestoredValid']_vars

\* The delete the user asked for is fully applied.
DeleteApplied(uri) ==
    /\ uri \notin files
    /\ ~Visible(uri)
    /\ \A o \in hist.objects : o[1] = uri => o[2] \notin remote

DeleteKept(uri) ==
    \/ \E j \in 1..Len(offlineDeleteQueue) : offlineDeleteQueue[j].uri = uri
    \/ \E j \in 1..Len(onlineDeleteQueue) : onlineDeleteQueue[j].uri = uri
    \/ \E t \in Tasks :
          /\ t.fn = "processOfflineDeleteQueue"
          /\ \E j \in 1..Len(t.offlineDeleteQueue) :
                 t.offlineDeleteQueue[j].uri = uri

PickKept(uri) ==
    \/ \E j \in 1..Len(saveQueue) : saveQueue[j].uri = uri
    \/ \E t \in Tasks :
          /\ IsTask(t, "processSaveQueue", "copyAsync")
          /\ \E j \in 1..Len(t.saveQueue) : t.saveQueue[j].uri = uri

(***************************************************************************)
(* C8 (queue durability): outside loadSavedImages, also after a kill and   *)
(* restart, every picked image not copied yet is in saveQueue or in the    *)
(* save drain, and every delete asked for is fully applied or still in     *)
(* offlineDeleteQueue, onlineDeleteQueue or the offline drain.             *)
(***************************************************************************)
C8_QueuesSurviveRestart ==
    (\A t \in Tasks : t.fn # "loadSavedImages")
        => /\ \A uri \in hist.unsaved : PickKept(uri)
           /\ \A uri \in hist.deleted : DeleteApplied(uri) \/ DeleteKept(uri)

\* One record, uploaded, and its object the only one of the bucket.
OneUploaded ==
    /\ Len(savedImages) = 1
    /\ savedImages[1].uploadStatus = "success"
    /\ remote = {savedImages[1].cloudPath}

(***************************************************************************)
(* C9 (scenario A): connected throughout and with nothing deleted, the     *)
(* one image picked into the empty gallery ends as one record with status  *)
(* success and one object in the bucket, its cloudPath, and stays so.      *)
(***************************************************************************)
C9_ScenarioA ==
    [](isConnected /\ hist.deleted = {}) => <>[](picked = 1 => OneUploaded)

C9_Witness ==
    /\ picked = 1
    /\ OneUploaded
    /\ Quiescent
    /\ isConnected
    /\ hist.deleted = {}
    /\ hist.retried = {}

\* One record, pending, added while disconnected, and an empty bucket.
OnePendingOffline ==
    /\ ~isConnected
    /\ Len(savedImages) = 1
    /\ savedImages[1].uploadStatus = "pending"
    /\ remote = {}

\* This step makes a record's status success.
BecomesUploaded ==
    \E j \in 1..Len(savedImages') :
        /\ savedImages'[j].uploadStatus = "success"
        /\ \A k \in 1..Len(savedImages) :
               savedImages[k].uri = savedImages'[j].uri
                   => savedImages[k].uploadStatus # "success"

(***************************************************************************)
(* C10 (scenario B): with one image picked, no step taken while            *)
(* disconnected stores an object or makes the record's status success, so  *)
(* an image picked while disconnected into the empty gallery stays pending *)
(* with an empty bucket; and when the connection comes back                *)
(* for good, nothing is deleted and no other image is picked, that record  *)
(* ends with status success and its object the only one in the bucket.     *)
(***************************************************************************)
C10_ScenarioB ==
    /\ [][~isConnected /\ ~isConnected' /\ picked' <= 1
              => remote' = remote /\ ~BecomesUploaded]_vars
    /\ (<>[]isConnected /\ [](hist.deleted = {} /\ picked <= 1))
           => (OnePendingOffline ~> OneUploaded)

C10_Witness ==
    /\ hist.offlinePicks # {}
    /\ hist.deleted = {}
    /\ isConnected
    /\ OneUploaded
    /\ Quiescent

(***************************************************************************)
(* C11 (scenario C): connected throughout, one image is picked and         *)
(* deleted while its storage.upload call is in flight; once no call is     *)
(* suspended and the queues are empty, savedImages and the bucket are      *)
(* empty, whatever the upload answered.                                    *)
(***************************************************************************)
C11_ScenarioC ==
    (Quiescent /\ picked = 1 /\ hist.netEvents = 0
        /\ hist.inFlightDeleted # {})
        => (savedImages = <<>> /\ remote = {})

(***************************************************************************)
(* C12 (I1, id uniqueness): no two records of savedImages have the same    *)
(* <baseTimestamp>-<index> name, also when two processSaveQueue read the   *)
(* same millisecond or a pick comes while a batch is being saved.          *)
(***************************************************************************)
C12_UniqueIds ==
    \A i \in 1..Len(savedImages) : \A j \in 1..Len(savedImages) :
        savedImages[i].uri = savedImages[j].uri => i = j

(***************************************************************************)
(* C13 (I2): a record of savedImages with status success has a cloudPath,  *)
(* and a record with status pending has none.                              *)
(***************************************************************************)
C13_CloudPathIffUploaded ==
    \A j \in 1..Len(savedImages) :
        /\ savedImages[j].uploadStatus = "success"
               => savedImages[j].cloudPath # NoPath
        /\ savedImages[j].uploadStatus = "pending"
               => savedImages[j].cloudPath = NoPath

C13_Witness ==
    /\ \E j \in 1..Len(savedImages) :
          /\ savedImages[j].uploadStatus = "success"
          /\ savedImages[j].cloudPath \in remote

InOfflineDeleteQueue(uri) ==
    \E j \in 1..Len(offlineDeleteQueue) : offlineDeleteQueue[j].uri = uri

InOnlineDeleteQueue(uri) ==
    \E j \in 1..Len(onlineDeleteQueue) : onlineDeleteQueue[j].uri = uri

\* The uris of the entries of the three queues.
QueuedUris ==
    {uploadQueue[j].uri : j \in 1..Len(uploadQueue)}
        \cup {offlineDeleteQueue[j].uri : j \in 1..Len(offlineDeleteQueue)}
        \cup {onlineDeleteQueue[j].uri : j \in 1..Len(onlineDeleteQueue)}

(***************************************************************************)
(* C14 (I3): an image is in at most one of uploadQueue, offlineDeleteQueue *)
(* and onlineDeleteQueue; an image deleteImage has queued is not in        *)
(* uploadQueue.                                                            *)
(***************************************************************************)
C14_AtMostOneQueue ==
    \A uri \in QueuedUris :
        /\ ~(InUploadQueue(uri) /\ InOfflineDeleteQueue(uri))
        /\ ~(InUploadQueue(uri) /\ InOnlineDeleteQueue(uri))
        /\ ~(InOfflineDeleteQueue(uri) /\ InOnlineDeleteQueue(uri))

(***************************************************************************)
(* C15: a record of savedImages carries an uploadError exactly when its    *)
(* uploadStatus is "error"; a pending, uploading or uploaded record has    *)
(* none, also after an upload attempted offline or failed by the network.  *)
(***************************************************************************)
C15_ErrorIffFailed ==
    \A j \in 1..Len(savedImages) :
        savedImages[j].uploadError # NoError
            <=> savedImages[j].uploadStatus = "error"

\* The state of the component and of the stores, and the suspended calls.
ProgramState ==
    <<savedImages, saveQueue, uploadQueue, isConnected, processingImages,
      offlineDeleteQueue, onlineDeleteQueue, asyncStorage, files, remote,
      tasks>>

(***************************************************************************)
(* C16: deleteImage called for a row savedImages does not have changes     *)
(* nothing: the records, the three queues and the AsyncStorage entries     *)
(* stay as they are, and no local or remote delete is started.             *)
(***************************************************************************)
C16_MissingRowNoOp ==
    [][\A index \in 1..(MaxPicks + 1) :
          (index \notin 1..Len(savedImages) /\ deleteImage(index))
              => UNCHANGED ProgramState]_vars

\* deleteImage was called for the row of a record deleted before.
C16_Witness ==
    /\ hist.missing # {}
    /\ hist.deleted # {}
    /\ savedImages = <<>>

\* The offline delete queue as AsyncStorage holds it names the image.
OfflineDeletePersisted(uri) ==
    \E j \in 1..Len(asyncStorage["offlineDeleteQueue"]) :
        asyncStorage["offlineDeleteQueue"][j].uri = uri

(***************************************************************************)
(* C17: when deleteImage returns for a record of savedImages, the record   *)
(* is off savedImages (the list the grid shows), an entry for it is on     *)
(* offlineDeleteQueue, and AsyncStorage holds that queue.                  *)
(***************************************************************************)
C17_DeleteTakesEffectAtReturn ==
    [][\A t \in Tasks :
          deleteImage_saved(t)
              => /\ ~Visible(t.imageToDelete.uri)'
                 /\ InOfflineDeleteQueue(t.imageToDelete.uri)'
                 /\ OfflineDeletePersisted(t.imageToDelete.uri)']_vars

(***************************************************************************)
(* C18: for an image deleteImage was called for while it waited in         *)
(* uploadQueue and no drain held it, no storage.upload call is issued      *)
(* afterwards, also after a reconnect, and no object of it is in the       *)
(* bucket.                                                                 *)
(***************************************************************************)
C18_DeletedWhileQueuedNeverUploaded ==
    \A uri \in hist.waitingDeleted :
        /\ ~UploadInFlight(uri)
        /\ \A o \in hist.objects : o[1] = uri => o[2] \notin remote

\* How many entries of the queue name the image.
Occurrences(queue, uri) ==
    Cardinality({j \in 1..Len(queue) : queue[j].uri = uri})

\* How many entries of the running drains of the upload queue name it.
RECURSIVE DrainOccurrences(_, _, _)
DrainOccurrences(ts, calls, uri) ==
    IF ts = {} THEN 0
    ELSE LET t == CHOOSE u \in ts : TRUE
         IN  (IF t.fn = "processUploadQueue"
              THEN CopiesIn(t, calls) * Occurrences(t.queue, uri) ELSE 0)
             + DrainOccurrences(ts \ {t}, calls, uri)

\* With the upload queue and the suspended calls given, the image is queued
\* for upload, or being uploaded, exactly once.
QueuedOnce(queue, calls, uri) ==
    Occurrences(queue, uri) + DrainOccurrences(BagToSet(calls), calls, uri) = 1

(***************************************************************************)
(* C19: when NetInfo reports connected to a component that was not, the    *)
(* listener leaves every record of savedImages with status error or        *)
(* pending exactly once in the upload queue (as an entry of uploadQueue or *)
(* of the drain the event starts): it adds the ones not queued and adds    *)
(* none a second time.                                                     *)
(***************************************************************************)
C19_ReconnectQueuesOnce ==
    [][(~isConnected /\ isConnected')
          => \A j \in 1..Len(savedImages') :
                 IsFailedUpload(savedImages'[j])
                     => QueuedOnce(uploadQueue', tasks', savedImages'[j].uri)]_vars

(***************************************************************************)
(* C20: a NetInfo event whose isConnected && isInternetReachable is the    *)
(* value the component already holds re-enqueues nothing, starts no drain  *)
(* and changes no state.                                                   *)
(***************************************************************************)
C20_SameValueEventChangesNothing ==
    [][NetInfoRepeat => UNCHANGED <<ProgramState, listener>>]_vars

(***************************************************************************)
(* C21: the NetInfo event that takes the component from connected to       *)
(* disconnected changes isConnected only: savedImages (the records and     *)
(* their statuses) and the save, upload, offline delete and online delete  *)
(* queues are as before, nothing is written to AsyncStorage and no drain   *)
(* starts.                                                                 *)
(***************************************************************************)
C21_DisconnectChangesFlagOnly ==
    [][(isConnected /\ ~isConnected')
          => UNCHANGED <<savedImages, saveQueue, uploadQueue,
                         offlineDeleteQueue, onlineDeleteQueue,
                         processingImages, asyncStorage, files, remote,
                         tasks>>]_vars

\* The component went offline holding a record that waits for its upload,
\* with calls suspended.
C21_Witness ==
    /\ ~isConnected
    /\ hist.netEvents = 1
    /\ tasks # EmptyBag
    /\ \E j \in 1..Len(savedImages) : IsFailedUpload(savedImages[j])

\* The async functions that drain a queue.
DrainFunctions ==
    {"processSaveQueue", "processUploadQueue", "processOfflineDeleteQueue",
     "processOnlineDeleteQueue"}

\* How many calls of the function are suspended among the given calls.
RECURSIVE ActiveCalls(_, _, _)
ActiveCalls(ts, calls, fn) ==
    IF ts = {} THEN 0
    ELSE LET t == CHOOSE u \in ts : TRUE
         IN  (IF t.fn = fn THEN CopiesIn(t, calls) ELSE 0)
             + ActiveCalls(ts \ {t}, calls, fn)

(***************************************************************************)
(* C22: at most one drain of the save queue, of the upload queue, of the   *)
(* offline delete queue and of the online delete queue is running at any   *)
(* time, so no entry is handled by two drains that overlap.                *)
(***************************************************************************)
C22_OneDrainPerQueue ==
    \A fn \in DrainFunctions : ActiveCalls(BagToSet(tasks), tasks, fn) <= 1

\* How many entries of the online delete queue name the object.
PathOccurrences(queue, path) ==
    Cardinality({j \in 1..Len(queue) : queue[j].cloudPath = path})

\* The object names of the entries of the online delete queue.
OnlineQueuedPaths ==
    {onlineDeleteQueue[j].cloudPath : j \in 1..Len(onlineDeleteQueue)}

(***************************************************************************)
(* C23: an entry leaves onlineDeleteQueue only when storage.remove has     *)
(* succeeded for its cloudPath; a remove that fails leaves the queue as it *)
(* is.                                                                     *)
(***************************************************************************)
C23_RemoteDeleteNeverLost ==
    [][\A path \in OnlineQueuedPaths :
          PathOccurrences(onlineDeleteQueue', path)
              < PathOccurrences(onlineDeleteQueue, path)
              => path \in hist'.removedOnce]_vars

\* Every record of savedImages has status success.
AllUploaded ==
    \A j \in 1..Len(savedImages) : savedImages[j].uploadStatus = "success"

(***************************************************************************)
(* C24 (self-healing): when the connection comes back for good, the bucket *)
(* ends up accepting uploads and nothing is deleted, the image picked ends *)
(* as a record with status success, whatever failures its uploads met      *)
(* before: no record stays pending or error for ever.                      *)
(***************************************************************************)
C24_SelfHealing ==
    (<>[]isConnected /\ [](hist.deleted = {} /\ picked <= 1))
        => (picked = 1 ~> (savedImages # <<>> /\ AllUploaded))

(***************************************************************************)
(* C25: whenever no handler or drain is suspended, the list stored under   *)
(* the SAVED_IMAGES key of AsyncStorage equals savedImages, also after an  *)
(* upload that ended with status error or went back to pending.            *)
(***************************************************************************)
C25_PersistedEqualsMemory ==
    tasks = EmptyBag => asyncStorage["savedImages"] = savedImages

\* No drain of the save queue is running and the save queue is empty.
SaveDrained ==
    /\ saveQueue = <<>>
    /\ \A t \in Tasks : t.fn # "processSaveQueue"

(***************************************************************************)
(* C26: the drain of the save queue adds exactly one pending record (and   *)
(* one uploadQueue entry) for every image whose copy succeeded and none    *)
(* for one whose copy failed, and discards no entry added meanwhile; so,   *)
(* where every copy succeeds and nothing is deleted, once the save queue   *)
(* is drained savedImages has one record for each image picked.            *)
(***************************************************************************)
C26_OneRecordPerSavedImage ==
    SaveDrained => Len(savedImages) = picked

\* How many storage.upload calls are in flight among the given calls.
RECURSIVE UploadCalls(_, _)
UploadCalls(ts, calls) ==
    IF ts = {} THEN 0
    ELSE LET t == CHOOSE u \in ts : TRUE
         IN  (IF t.fn = "processUploadQueue" /\ t.pc = "upload"
              THEN CopiesIn(t, calls) ELSE 0)
             + UploadCalls(ts \ {t}, calls)

(***************************************************************************)
(* C27: at most one storage.upload call is in flight at any time, and so   *)
(* never two for the same image, also when the NetInfo listener and the    *)
(* uploadQueue effect both start processUploadQueue or a reconnect         *)
(* re-enqueues records during a drain.                                     *)
(***************************************************************************)
C27_UploadsSerialized == UploadCalls(BagToSet(tasks), tasks) <= 1

(***************************************************************************)
(* C28: once the component is disconnected, a drain of the upload queue    *)
(* that started before issues no storage.upload call for the entries it    *)
(* still holds: no step taken while disconnected puts a new upload call in *)
(* flight.                                                                 *)
(***************************************************************************)
C28_NoUploadCallWhileDisconnected ==
    [][(~isConnected /\ ~isConnected')
          => UploadCalls(BagToSet(tasks'), tasks')
                 <= UploadCalls(BagToSet(tasks), tasks)]_vars

\* Every record of the list that names the image has status "uploading".
MarkedUploading(images, uri) ==
    \A j \in 1..Len(images) :
        images[j].uri = uri => images[j].uploadStatus = "uploading"

(***************************************************************************)
(* C29: while a storage.upload call for an image is in flight, its record, *)
(* if savedImages still has it, has status "uploading", in savedImages and *)
(* in the list stored in AsyncStorage: the status is set and persisted     *)
(* before the call is issued.                                              *)
(***************************************************************************)
C29_UploadingBeforeUploadCall ==
    \A j \in 1..Len(savedImages) :
        UploadInFlight(savedImages[j].uri)
            => /\ MarkedUploading(savedImages, savedImages[j].uri)
               /\ MarkedUploading(asyncStorage["savedImages"],
                                  savedImages[j].uri)

\* The records the call of task t was made for, as savedImages has them
\* after the step (none when the record has left the list).
FailedRecords(t) ==
    {j \in 1..Len(savedImages') : savedImages'[j].uri = Head(t.queue).uri}

\* The image is an entry of uploadQueue or of a running drain of it.
HeldForUpload(queue, calls, uri) ==
    Occurrences(queue, uri) + DrainOccurrences(BagToSet(calls), calls, uri) >= 1

(***************************************************************************)
(* C30: when storage.upload fails, a network-class failure leaves the      *)
(* record pending and any other failure makes it error with the message in *)
(* uploadError; in neither case the record gets a cloudPath; and the next  *)
(* NetInfo event that takes the component to connected puts every pending  *)
(* or error record in the upload queue again.                              *)
(***************************************************************************)
C30_FailureClassification ==
    /\ [][\A t \in Tasks : \A outcome \in {"network", "server"} :
            (/\ IsTask(t, "processUploadQueue", "upload")
             /\ processUploadQueue_uploaded(t, outcome))
                => \A j \in FailedRecords(t) :
                      /\ outcome = "network"
                             => savedImages'[j].uploadStatus = "pending"
                      /\ outcome = "server"
                             => /\ savedImages'[j].uploadStatus = "error"
                                /\ savedImages'[j].uploadError = ServerMessage
                      /\ savedImages'[j].cloudPath = NoPath]_vars
    /\ [][(~isConnected /\ isConnected')
            => \A j \in 1..Len(savedImages') :
                   IsFailedUpload(savedImages'[j])
                       => HeldForUpload(uploadQueue', tasks',
                                        savedImages'[j].uri)]_vars

\* An upload was refused by the server and the record shows it.
C30_Witness ==
    \E j \in 1..Len(savedImages) :
        /\ savedImages[j].uploadStatus = "error"
        /\ savedImages[j].uploadError = ServerMessage
        /\ savedImages[j].cloudPath = NoPath

\* The rows of savedImages that hold the record of the image.
RecordsOf(uri) == {j \in 1..Len(savedImages) : savedImages[j].uri = uri}

(***************************************************************************)
(* C31: when processOfflineDeleteQueue handles an entry (its deleteAsync   *)
(* has resolved), the cloudPath of the image is appended to                *)
(* onlineDeleteQueue if the record has one at that time, and nothing is    *)
(* appended for a record that has none.                                    *)
(***************************************************************************)
C31_PromotionFollowsRecord ==
    [][\A t \in Tasks :
          processOfflineDeleteQueue_deleted(t)
              => \A j \in RecordsOf(t.offlineDeleteQueue[1].uri) :
                    IF savedImages[j].cloudPath # NoPath
                    THEN PathOccurrences(onlineDeleteQueue',
                                         savedImages[j].cloudPath) > 0
                    ELSE onlineDeleteQueue' = onlineDeleteQueue]_vars

(* C32: when storage.upload answers 409, every record of the image in
   savedImages gets status success, the file name the upload used as
   cloudPath and no uploadError, which is the record a stored upload
   gives; it never gets status error. *)
C32_ConflictIsSuccess ==
    [][\A t \in Tasks :
          processUploadQueue_uploaded(t, "409")
              => LET image == Head(t.queue)
                     fileName == FileNameOf(HashOf(image))
                 IN  \A j \in 1..Len(savedImages') :
                        savedImages'[j].uri = image.uri
                            => /\ savedImages'[j].uploadStatus = "success"
                               /\ savedImages'[j].cloudPath = fileName
                               /\ savedImages'[j].uploadError = NoError
                               /\ savedImages'[j] =
                                      UploadResult(image, fileName, "created",
                                                   t.isConnected)]_vars

C32_Witness ==
    \E r \in hist.retried :
        /\ r[4] = "upload"
        /\ \E j \in 1..Len(savedImages) :
               /\ savedImages[j].uri = r[1]
               /\ savedImages[j].uploadStatus = "success"
               /\ savedImages[j].cloudPath = r[3]

(* C33: the step that ends loadSavedImages leaves in savedImages exactly
   the records it read from AsyncStorage whose file exists, each as it was
   stored, and leaves every such record with status pending or error once
   in the upload queue (as an entry of uploadQueue or of the drain the
   step starts) and every such record with status success out of it. *)
C33_LoadKeepsAndQueues ==
    [][\A t \in Tasks :
          loadSavedImages_checked(t)
              => LET Exists(img) == img.uri \in files
                 IN  /\ savedImages' = Filter(t.parsed, Exists)
                     /\ \A j \in 1..Len(savedImages') :
                            Occurrences(uploadQueue', savedImages'[j].uri)
                              + DrainOccurrences(BagToSet(tasks'), tasks',
                                                 savedImages'[j].uri) =
                                IF savedImages'[j].uploadStatus
                                       \in {"pending", "error"}
                                THEN 1 ELSE 0]_vars

(* C34: savedImages, the list ImageGrid shows, has the newest record
   first: when the drain of the save queue writes its batch, every record
   of the batch precedes every record the list had before. *)
C34_NewestFirst ==
    [][\A t \in {u \in Tasks : IsTask(u, "processSaveQueue", "copyAsync")} :
       \A ok \in SUBSET (1..Len(t.saveQueue)) :
          processSaveQueue_copied(t, ok)
              => \A j \in 1..Len(savedImages') :
                    \A k \in 1..Len(savedImages') :
                       (/\ ~Visible(savedImages'[j].uri)
                        /\ Visible(savedImages'[k].uri)) => j < k]_vars

(***************************************************************************)
(* The variant of the component in src/app/index.tsx.  It has no delete    *)
(* queues: deleteImage marks an uploaded image deleted while disconnected  *)
(* with the status pending_deletion, and the NetInfo listener calls        *)
(* processQueuedDeletions when it reports connected.  pickImage,           *)
(* processSaveQueue and the answers of the bucket are those of the         *)
(* component above; the variant keeps its list under the one AsyncStorage  *)
(* key savedImages and never deletes a local file.                         *)
(***************************************************************************)
\* An absent deletionQueuedAt.
NoDate == "undefined"

\* Lines 219-224: the ImageInfo of a picked asset.
index_NewImage(n) ==
    [uri |-> AssetUri(n), uploadStatus |-> "pending", uploadError |-> NoError,
     uploadDate |-> "null", cloudPath |-> NoPath, deletionQueuedAt |-> NoDate]

\* What the functions the listener calls read from the closure it was
\* created in: processUploadQueue and processQueuedDeletions.
index_ListenerClosure(s) ==
    [isConnected |-> s.isConnected, uploadQueue |-> s.uploadQueue,
     processingImages |-> s.processingImages, savedImages |-> s.savedImages]

\* processUploadQueue suspended at the list() of uploadImageToCloud.
index_UploadTask(queue, processing) ==
    [fn |-> "processUploadQueue", pc |-> "list", queue |-> queue,
     processingImages |-> processing]

\* Lines 400-423: the call gets past the guard, clears the queue, skips
\* the entries being processed and awaits the upload of the first other.
index_UploadSpawn(closure) ==
    LET rest == SkipProcessing(closure.uploadQueue, closure.processingImages)
    IN  IF UploadStarts(closure) /\ rest # <<>>
        THEN SetToBag({index_UploadTask(rest, closure.processingImages)})
        ELSE EmptyBag

\* Line 421: the hashes the calls just started add to processingImages.
index_Started(spawned) ==
    {HashOf(Head(t.queue)) :
        t \in {u \in BagToSet(spawned) : u.fn = "processUploadQueue"}}

\* The render after a synchronous segment, with the effects of lines
\* 109-139: the listener is subscribed again when isConnected changed.
index_Commit(s, t) ==
    \E now \in (IF SaveEffectFires(Current, s) THEN DateNow ELSE {clock}) :
    LET saves == IF SaveEffectFires(Current, s)
                 THEN SetToBag({SaveTask(s, now)}) ELSE EmptyBag
        uploads == IF UploadEffectFires(Current, s)
                   THEN index_UploadSpawn(s) ELSE EmptyBag
    IN  /\ BagCardinality(t) + BagCardinality(saves (+) uploads) <= MaxTasks
        /\ tasks' = t (+) saves (+) uploads
        /\ savedImages' = s.savedImages
        /\ saveQueue' = s.saveQueue
        /\ uploadQueue' = IF UploadEffectFires(Current, s) THEN <<>>
                          ELSE s.uploadQueue
        /\ isConnected' = s.isConnected
        /\ processingImages' = s.processingImages \cup index_Started(uploads)
        /\ listener' = IF s.isConnected # isConnected
                       THEN index_ListenerClosure(s) ELSE listener
        /\ clock' = IF SaveEffectFires(Current, s) THEN now ELSE clock
        /\ UNCHANGED <<offlineDeleteQueue, onlineDeleteQueue>>

\* Lines 200-237.
index_pickImage(k) ==
    /\ k \in 1..selectionLimit
    /\ LET newImages == [j \in 1..k |-> index_NewImage(picked + j)]
       IN  index_Commit([Current EXCEPT !.saveQueue = saveQueue \o newImages],
                        tasks)
    /\ picked' = picked + k
    /\ UNCHANGED <<asyncStorage, files, remote, net, hist>>

\* Lines 239-297: the Promise.all of the copies resolves.
index_processSaveQueue_copied(t, ok) ==
    /\ IsTask(t, "processSaveQueue", "copyAsync")
    /\ ok \subseteq 1..Len(t.saveQueue)
    /\ LET validImages == ValidImages(t.saveQueue, t.baseTimestamp, ok)
           newSavedImages == t.savedImages \o validImages
       IN  /\ files' = files \cup {validImages[j].uri : j \in 1..Len(validImages)}
           /\ IF validImages # <<>>
              THEN /\ asyncStorage' =
                        [asyncStorage EXCEPT !["savedImages"] = newSavedImages]
                   /\ index_Commit([Current EXCEPT
                                      !.savedImages = newSavedImages,
                                      !.uploadQueue = uploadQueue \o validImages],
                                   Resumed(t, [t EXCEPT !.pc = "setItem"]))
              ELSE /\ asyncStorage' = asyncStorage
                   /\ index_Commit([Current EXCEPT !.saveQueue = <<>>],
                                   Finished(t))
    /\ UNCHANGED <<remote, net, picked, hist>>

\* The setItem of line 284 resolves: line 290.
index_processSaveQueue_saved(t) ==
    /\ IsTask(t, "processSaveQueue", "setItem")
    /\ index_Commit([Current EXCEPT !.saveQueue = <<>>], Finished(t))
    /\ UNCHANGED <<asyncStorage, files, remote, net, picked, hist>>

\* Lines 360-397: the object returned for each answer of storage.upload;
\* every failure gives the status error.
index_UploadResult(imageInfo, fileName, outcome) ==
    CASE outcome = "created" -> UploadSuccess(imageInfo, fileName)
      [] outcome = "409" -> UploadSuccess(imageInfo, fileName)
      [] outcome = "network" ->
            [imageInfo EXCEPT !.uploadStatus = "error",
                              !.uploadError = NetworkMessage]
      [] outcome = "server" ->
            [imageInfo EXCEPT !.uploadStatus = "error",
                              !.uploadError = ServerMessage]

\* Lines 425-446 and the next turn of the loop of line 410.
index_UploadCompleted(t, result) ==
    LET image == Head(t.queue)
        newSavedImages == WithResult(savedImages, image, result)
        rest == SkipProcessing(Tail(t.queue), t.processingImages)
        after == IF rest = <<>> THEN Finished(t)
                 ELSE Resumed(t, [t EXCEPT !.queue = rest, !.pc = "list"])
        started == IF rest = <<>> THEN {} ELSE {HashOf(Head(rest))}
    IN  /\ asyncStorage' =
             IF result.uploadStatus = "success"
             THEN [asyncStorage EXCEPT !["savedImages"] = newSavedImages]
             ELSE asyncStorage
        /\ index_Commit([Current EXCEPT
                           !.savedImages = newSavedImages,
                           !.processingImages =
                               (processingImages \ {HashOf(image)})
                                   \cup started],
                        after)

\* storage.list() resolves: lines 319-345.
index_processUploadQueue_listed(t, outcome) ==
    /\ IsTask(t, "processUploadQueue", "list")
    /\ outcome \in ListOutcomes
    /\ LET image == Head(t.queue)
           imageHash == HashOf(image)
           fileName == FileNameOf(imageHash)
           existingFiles == IF outcome = "listed" THEN remote ELSE {}
       IN  IF AlreadyUploaded(existingFiles, imageHash)
           THEN index_UploadCompleted(t, UploadSuccess(image, fileName))
           ELSE IF imageHash \in t.processingImages
           THEN index_UploadCompleted(t, image)
           ELSE /\ index_Commit(Current, Resumed(t, [t EXCEPT !.pc = "upload"]))
                /\ UNCHANGED asyncStorage
    /\ UNCHANGED <<files, remote, net, picked, hist>>

\* storage.upload() resolves: lines 354-397.
index_processUploadQueue_uploaded(t, outcome) ==
    /\ IsTask(t, "processUploadQueue", "upload")
    /\ LET image == Head(t.queue)
           fileName == FileNameOf(HashOf(image))
       IN  /\ outcome \in UploadOutcomes(fileName, image.uri \in files)
           /\ remote' = IF outcome = "created" THEN remote \cup {fileName}
                        ELSE remote
           /\ index_UploadCompleted(t,
                  index_UploadResult(image, fileName, outcome))
    /\ UNCHANGED <<files, net, picked, hist>>

\* Lines 497-504: the record of the row, marked for deletion.
index_QueuedForDeletion(img) ==
    [img EXCEPT !.uploadStatus = "pending_deletion",
                !.deletionQueuedAt = "date"]

\* savedImages.filter((_, i) => i !== index)  (line 556; rows from 1).
index_WithoutRow(images, index) ==
    [j \in 1..(Len(images) - 1) |->
        IF j < index THEN images[j] ELSE images[j + 1]]

\* deleteImage suspended at storage.remove (line 527).
index_DeleteTask(images, index) ==
    [fn |-> "deleteImage", pc |-> "remove", savedImages |-> images,
     index |-> index, cloudPath |-> images[index].cloudPath]

\* Lines 488-570, to the first await whose continuation changes state.
index_deleteImage(index) ==
    /\ IF index \notin 1..Len(savedImages)
       THEN UNCHANGED <<vars>>
       ELSE LET imageToDelete == savedImages[index]
            IN  IF ~isConnected /\ imageToDelete.uploadStatus = "success"
                THEN LET updatedImages ==
                             [savedImages EXCEPT
                                 ![index] = index_QueuedForDeletion(@)]
                     IN  /\ index_Commit([Current EXCEPT
                                            !.savedImages = updatedImages],
                                         tasks)
                         /\ asyncStorage' =
                                [asyncStorage EXCEPT
                                    !["savedImages"] = updatedImages]
                ELSE IF /\ imageToDelete.uploadStatus = "success"
                        /\ imageToDelete.cloudPath # NoPath
                THEN /\ index_Commit(Current,
                          tasks (+) SetToBag({index_DeleteTask(savedImages,
                                                               index)}))
                     /\ UNCHANGED asyncStorage
                ELSE LET updatedImages == index_WithoutRow(savedImages, index)
                     IN  /\ index_Commit([Current EXCEPT
                                            !.savedImages = updatedImages],
                                         tasks)
                         /\ asyncStorage' =
                                [asyncStorage EXCEPT
                                    !["savedImages"] = updatedImages]
    /\ UNCHANGED <<files, remote, net, picked, hist>>

\* storage.remove() of deleteImage resolves: lines 531-558.
index_deleteImage_removed(t, outcome) ==
    /\ IsTask(t, "deleteImage", "remove")
    /\ outcome \in RemoveOutcomes
    /\ IF outcome = "removed"
       THEN LET updatedImages == index_WithoutRow(t.savedImages, t.index)
            IN  /\ remote' = remote \ {t.cloudPath}
                /\ index_Commit([Current EXCEPT
                                   !.savedImages = updatedImages],
                                Finished(t))
                /\ asyncStorage' =
                       [asyncStorage EXCEPT !["savedImages"] = updatedImages]
       ELSE /\ index_Commit(Current, Finished(t))
            /\ UNCHANGED <<remote, asyncStorage>>
    /\ UNCHANGED <<files, net, picked, hist>>

\* img.uploadStatus === "pending_deletion"  (lines 574 and 614).
IsPendingDeletion(img) == img.uploadStatus = "pending_deletion"

\* The entries of queuedImages the loop does not skip (line 594).
index_HasCloudPath(img) == img.cloudPath # NoPath

\* processQueuedDeletions suspended at storage.remove (line 598).
index_DeletionsTask(images) ==
    [fn |-> "processQueuedDeletions", pc |-> "remove", savedImages |-> images,
     queue |-> Filter(Filter(images, IsPendingDeletion), index_HasCloudPath)]

\* Lines 613-617: the list the function leaves.
index_RemainingImages(images) ==
    LET Kept(img) == ~IsPendingDeletion(img)
    IN  Filter(images, Kept)

\* storage.remove() of processQueuedDeletions resolves: lines 602-617.
index_processQueuedDeletions_removed(t, outcome) ==
    /\ IsTask(t, "processQueuedDeletions", "remove")
    /\ outcome \in RemoveOutcomes
    /\ remote' = IF outcome = "removed"
                 THEN remote \ {Head(t.queue).cloudPath} ELSE remote
    /\ IF Tail(t.queue) # <<>>
       THEN /\ index_Commit(Current,
                            Resumed(t, [t EXCEPT !.queue = Tail(t.queue)]))
            /\ UNCHANGED asyncStorage
       ELSE LET remainingImages == index_RemainingImages(t.savedImages)
            IN  /\ index_Commit([Current EXCEPT
                                   !.savedImages = remainingImages],
                                Finished(t))
                /\ asyncStorage' =
                       [asyncStorage EXCEPT
                           !["savedImages"] = remainingImages]
    /\ UNCHANGED <<files, net, picked, hist>>

\* The NetInfo listener, lines 109-123, called with a state whose
\* isConnected && isInternetReachable is v: the two functions it calls run
\* with the closure the listener was created in.
index_NetInfoListener(v) ==
    LET uploads == IF v THEN index_UploadSpawn(listener) ELSE EmptyBag
        cleared == v /\ UploadStarts(listener)
        queuedImages == Filter(listener.savedImages, IsPendingDeletion)
        deletions == index_DeletionsTask(listener.savedImages)
        awaits == v /\ deletions.queue # <<>>
        cleans == v /\ queuedImages # <<>> /\ deletions.queue = <<>>
        remainingImages == index_RemainingImages(listener.savedImages)
    IN  /\ index_Commit(
               [Current EXCEPT
                   !.isConnected = v,
                   !.uploadQueue = IF cleared THEN <<>> ELSE @,
                   !.processingImages = @ \cup index_Started(uploads),
                   !.savedImages = IF cleans THEN remainingImages ELSE @],
               tasks (+) uploads
                     (+) (IF awaits THEN SetToBag({deletions})
                          ELSE EmptyBag))
        /\ asyncStorage' =
               IF cleans
               THEN [asyncStorage EXCEPT !["savedImages"] = remainingImages]
               ELSE asyncStorage

\* The network becomes usable or unusable, and NetInfo reports it.
index_NetInfoChange ==
    /\ hist.netEvents < MaxNetInfoEvents
    /\ net' = ~net
    /\ index_NetInfoListener(~net)
    /\ hist' = [hist EXCEPT !.netEvents = @ + 1]
    /\ UNCHANGED <<files, remote, picked>>

\* NetInfo reports a state of the same usability as the last one.
index_NetInfoRepeat ==
    /\ hist.netEvents < MaxNetInfoEvents
    /\ net' = net
    /\ index_NetInfoListener(net)
    /\ hist' = [hist EXCEPT !.netEvents = @ + 1]
    /\ UNCHANGED <<files, remote, picked>>

(***************************************************************************)
(* The variant's engine: the picker is opened once and returns up to       *)
(* MaxSavePicks assets, and every copy succeeds.                           *)
(***************************************************************************)
IndexPick == picked = 0 /\ \E k \in 1..MaxSavePicks : index_pickImage(k)

IndexSaveCopied ==
    \E t \in Tasks :
        /\ IsTask(t, "processSaveQueue", "copyAsync")
        /\ index_processSaveQueue_copied(t, 1..Len(t.saveQueue))

IndexSaveSaved == \E t \in Tasks : index_processSaveQueue_saved(t)

IndexUploadListed ==
    \E t \in Tasks : \E outcome \in ListOutcomes :
        index_processUploadQueue_listed(t, outcome)

IndexUploadResolved ==
    \E t \in Tasks : \E outcome \in {"created", "409", "network", "server"} :
        index_processUploadQueue_uploaded(t, outcome)

IndexDelete == \E index \in 1..Len(savedImages) : index_deleteImage(index)

IndexDeleteRemoved ==
    \E t \in Tasks : \E outcome \in RemoveOutcomes :
        index_deleteImage_removed(t, outcome)

IndexDeletionsRemoved ==
    \E t \in Tasks : \E outcome \in RemoveOutcomes :
        index_processQueuedDeletions_removed(t, outcome)

InitIndex ==
    /\ savedImages = InitialReactState.savedImages
    /\ saveQueue = InitialReactState.saveQueue
    /\ uploadQueue = InitialReactState.uploadQueue
    /\ isConnected = InitialReactState.isConnected
    /\ processingImages = InitialReactState.processingImages
    /\ offlineDeleteQueue = <<>>
    /\ onlineDeleteQueue = <<>>
    /\ listener = index_ListenerClosure(InitialReactState)
    /\ asyncStorage = [k \in STORAGE_KEYS |-> <<>>]
    /\ files = {}
    /\ remote = {}
    /\ net = TRUE
    /\ clock = 0
    /\ picked = 0
    /\ tasks = EmptyBag
    /\ hist = InitialHist

NextIndex ==
    \/ IndexPick
    \/ IndexDelete
    \/ IndexSaveCopied
    \/ IndexSaveSaved
    \/ IndexUploadListed
    \/ IndexUploadResolved
    \/ IndexDeleteRemoved
    \/ IndexDeletionsRemoved
    \/ index_NetInfoChange
    \/ index_NetInfoRepeat

SpecIndex == InitIndex /\ [][NextIndex]_vars

\* The image has a record queued for deletion in the list.
QueuedForDeletion(images, uri) ==
    \E j \in 1..Len(images) :
        images[j].uri = uri /\ IsPendingDeletion(images[j])

(* C35: in the variant, a record of savedImages has a deletionQueuedAt
   exactly when its status is pending_deletion, and such a record has a
   cloudPath; and a record comes to have that status only in a call of
   deleteImage for its row, made while the component is disconnected and
   the record has status success. *)
C35_QueuedForDeletionMark ==
    /\ [](\A j \in 1..Len(savedImages) :
             /\ savedImages[j].deletionQueuedAt # NoDate
                    <=> IsPendingDeletion(savedImages[j])
             /\ IsPendingDeletion(savedImages[j])
                    => savedImages[j].cloudPath # NoPath)
    /\ [][\A j \in 1..Len(savedImages') :
             (/\ IsPendingDeletion(savedImages'[j])
              /\ ~QueuedForDeletion(savedImages, savedImages'[j].uri))
                 => \E index \in 1..Len(savedImages) :
                       /\ savedImages[index].uri = savedImages'[j].uri
                       /\ savedImages[index].uploadStatus = "success"
                       /\ ~isConnected
                       /\ index_deleteImage(index)]_vars

(* C36: in the variant, a record with status pending_deletion leaves
   savedImages only when its object is no longer in the bucket; and when
   a storage.remove of processQueuedDeletions resolves, every record
   queued for deletion whose object is still in the bucket stays in
   savedImages with status pending_deletion. *)
C36_QueuedDeletionNeverLost ==
    /\ [][\A j \in 1..Len(savedImages) :
             (/\ IsPendingDeletion(savedImages[j])
              /\ \A k \in 1..Len(savedImages') :
                     savedImages'[k].uri # savedImages[j].uri)
                 => savedImages[j].cloudPath \notin remote']_vars
    /\ [][\A t \in {u \in Tasks : u.fn = "processQueuedDeletions"} :
          \A outcome \in RemoveOutcomes :
             index_processQueuedDeletions_removed(t, outcome)
                => \A j \in 1..Len(savedImages) :
                      (/\ IsPendingDeletion(savedImages[j])
                       /\ savedImages[j].cloudPath \in remote')
                          => QueuedForDeletion(savedImages',
                                               savedImages[j].uri)]_vars

\* The drains of the save queue and of the offline delete queue that are
\* suspended before their write of the record list.
ListWriters ==
    {t \in Tasks :
        \/ t.fn = "processSaveQueue" /\ t.pc = "copyAsync"
        \/ /\ t.fn = "processOfflineDeleteQueue"
           /\ t.pc \in {"deleteAsync", "setItemOnlineQueue"}}

\* The step in which the drain writes the record list.
WritesList(t) ==
    IF t.fn = "processSaveQueue"
    THEN processSaveQueue_copied(t, 1..Len(t.saveQueue))
    ELSE processOfflineDeleteQueue_deleted(t)
            \/ processOfflineDeleteQueue_queued(t)

\* The images the drain is handling.
OwnUris(t) ==
    IF t.fn = "processSaveQueue"
    THEN {CopiedImage(t.saveQueue[j], t.baseTimestamp, j).uri :
             j \in 1..Len(t.saveQueue)}
    ELSE {t.offlineDeleteQueue[1].uri}

\* The records of the list, without those of the given images.
OtherRecords(images, uris) ==
    {images[j] : j \in {k \in 1..Len(images) : images[k].uri \notin uris}}

(* C37: when a drain of the save queue or of the offline delete queue
   writes the record list, the records of the images it is not handling
   are after the write what they were before it, in savedImages and in
   the stored savedImages: none is reverted to an earlier status, removed
   or added again. *)
C37_NoLostUpdate ==
    [][\A t \in ListWriters :
          WritesList(t)
              => /\ OtherRecords(savedImages', OwnUris(t))
                      = OtherRecords(savedImages, OwnUris(t))
                 /\ OtherRecords(asyncStorage'["savedImages"], OwnUris(t))
                      = OtherRecords(asyncStorage["savedImages"],
                                     OwnUris(t))]_vars

\* The entries of the offline delete queue, in memory and as stored.
OfflineDeleteEntries ==
    Range(offlineDeleteQueue) \cup Range(asyncStorage["offlineDeleteQueue"])

(* C38: when deleteImage was called for an image while
   processOfflineDeleteQueue was suspended on another one, then once
   every call has returned the file of the image is deleted and its
   record is out of savedImages, and the offline delete queue, in memory
   and as stored, holds no entry of a deleted file and misses no image
   whose deletion was asked and whose file is still there. *)
C38_NoLostDeleteIntent ==
    (tasks = EmptyBag /\ hist.interleaved # {})
        => /\ \A uri \in hist.interleaved :
                 uri \notin files /\ ~Visible(uri)
           /\ \A entry \in OfflineDeleteEntries : entry.uri \in files
           /\ \A uri \in hist.deleted :
                 uri \in files
                     => /\ InOfflineDeleteQueue(uri)
                        /\ OfflineDeletePersisted(uri)

(***************************************************************************)
(* The engine where the deleteAsync of the offline delete drain can throw. *)
(***************************************************************************)
OfflineFailed == \E t \in Tasks : processOfflineDeleteQueue_failed(t)

NextFailing ==
    \/ Pick
    \/ Delete
    \/ TaskStep
    \/ OfflineFailed

SpecFailing == Init /\ [][NextFailing]_vars

(* C39: when the deleteAsync of processOfflineDeleteQueue throws, the
   call writes its queue without the head entry to offlineDeleteQueue and
   to AsyncStorage, appends nothing to onlineDeleteQueue, and leaves
   savedImages, the stored lists of records and of remote deletes, and the
   file as they were. *)
C39_FailedDeleteLeavesQueue ==
    [][\A t \in {u \in Tasks : u.fn = "processOfflineDeleteQueue"} :
          processOfflineDeleteQueue_failed(t)
              => /\ offlineDeleteQueue' = Slice1(t.offlineDeleteQueue)
                 /\ asyncStorage'["offlineDeleteQueue"]
                        = Slice1(t.offlineDeleteQueue)
                 /\ onlineDeleteQueue' = onlineDeleteQueue
                 /\ asyncStorage'["onlineDeleteQueue"]
                        = asyncStorage["onlineDeleteQueue"]
                 /\ savedImages' = savedImages
                 /\ asyncStorage'["savedImages"] = asyncStorage["savedImages"]
                 /\ files' = files]_vars

C39_Witness ==
    \E uri \in hist.failedDeletes :
        /\ uri \in files
        /\ Visible(uri)
        /\ ~InOfflineDeleteQueue(uri)
        /\ ~OfflineDeletePersisted(uri)

\* The upload drains suspended at the getInfoAsync of a file that is gone.
MissingFileDrains ==
    {t \in Tasks :
        /\ t.fn = "processUploadQueue" /\ t.pc = "getInfoAsync"
        /\ Head(t.queue).uri \notin files}

\* The calls suspended at storage.list or storage.upload for the image.
RemoteCalls(calls, uri) ==
    {t \in BagToSet(calls) :
        /\ t.fn = "processUploadQueue" /\ t.pc \in {"list", "upload"}
        /\ Head(t.queue).uri = uri}

(* C40: when the getInfoAsync of the upload drain finds that the file of
   the entry is gone, the drain makes no storage.list or storage.upload
   call for it and stores nothing, the record of the image is out of
   savedImages after the step, and the drain goes on with the next entry
   of its queue. *)
C40_MissingFileSkipped ==
    [][\A t \in MissingFileDrains :
          processUploadQueue_checked(t)
              => LET image == Head(t.queue)
                     rest == SkipProcessing(Tail(t.queue), t.processingImages)
                 IN  /\ \A u \in RemoteCalls(tasks', image.uri) :
                            CopiesIn(u, tasks') <= CopiesIn(u, tasks)
                     /\ remote' = remote
                     /\ \A j \in 1..Len(savedImages') :
                            savedImages'[j].uri # image.uri
                     /\ rest # <<>>
                            => \E u \in BagToSet(tasks') :
                                  /\ u.fn = "processUploadQueue"
                                  /\ u.pc = "getInfoAsync"
                                  /\ u.queue = rest]_vars

C40_Witness ==
    \E t \in Tasks : \E uri \in hist.deleted :
        /\ t.fn = "processUploadQueue"
        /\ Len(t.queue) = 1
        /\ Head(t.queue).uri # uri
        /\ uri \notin files
        /\ ~Visible(uri)
        /\ \A o \in hist.objects : o[1] # uri

====
